---- MODULE Spec2Model ----
(***************************************************************************)
(* A model of map_mtm.c: a generic map kept as a singly linked list of     *)
(* key-data nodes, sorted by the caller's compare function, behind a dummy *)
(* first node, with one iterator stored in the map.                        *)
(*                                                                         *)
(* Representation.  A map is a record with the fields of struct Map_t.     *)
(* The field "first" holds the nodes that follow the dummy node, in list   *)
(* order, each a record [key, data]; the dummy node itself is position 0   *)
(* of the list and the i-th node after it is position i.  A node pointer   *)
(* is a position, NullNode (the C NULL) or Released (the address of a node *)
(* that freeNode has released).  Key and data elements are small integers; *)
(* NULL is the absent element.  copy_key / copy_data return an equal       *)
(* element, or NULL when the allocation inside them fails; whether each    *)
(* allocation succeeds is an input of the call.                            *)
(***************************************************************************)
EXTENDS Integers, Sequences, FiniteSets, TLC

\* ------------------------------------------------------------------ bounds
MaxKey == 3
MaxCopyKey == 2
MaxMemKey == 3

\* ------------------------------------------------- values of the program
NULL == 0
NullNode == -1
Released == -2
Dummy == 0

KeyElements == 1..MaxKey
DataElements == {1, 2}
KeyArgs == KeyElements \cup {NULL}
DataArgs == DataElements \cup {NULL}

\* The maps a client holds: the one it creates and the copy it makes of it.
MapIds == {"src", "cpy"}
NullMap == "NULL"

MAP_SUCCESS == "MAP_SUCCESS"
MAP_OUT_OF_MEMORY == "MAP_OUT_OF_MEMORY"
MAP_NULL_ARGUMENT == "MAP_NULL_ARGUMENT"
MAP_ITEM_DOES_NOT_EXIST == "MAP_ITEM_DOES_NOT_EXIST"

\* The memory of a map that is not allocated (never created, or destroyed).
NoMap == [alive |-> FALSE, first |-> <<>>, size |-> 0, iterator |-> NullNode]

VARIABLES
    maps,     \* maps[m]: the struct Map_t behind handle m, with its list
    last,     \* the last call: [op, map, key, data, fault, found, ret]
    history,  \* whether the history below is kept (fixed by the specification)
    noFail,   \* history: no allocation and no copy has failed so far
    abs,      \* history: abs[m], the finite function the calls on m describe
    enum,     \* history: enum[m], where the enumeration of m stands
    pass,     \* history: pass[m], the keys the current enumeration returned
    accounting, \* whether memory is accounted for (fixed by the specification)
    heap,     \* memory: the allocations that are live and held by a map
    mem       \* memory: what the last call allocated, released and lost

vars == <<maps, last, history, noFail, abs, enum, pass, accounting, heap, mem>>

\* A call: its arguments, the allocation that was to fail in it (fault), for
\* mapPut and mapRemove whether the key was in the map when the call was made
\* (found), and what it returned (ret).
Call(op, m, key, data, fault, found, ret) ==
    [op |-> op, map |-> m, key |-> key, data |-> data, fault |-> fault,
     found |-> found, ret |-> ret]

\* ------------------------------------------------- the caller's functions
compare_keys(a, b) == a - b

copy_key(keyElement, ok) == IF ok /\ keyElement # NULL THEN keyElement ELSE NULL

copy_data(dataElement, ok) == IF ok /\ dataElement # NULL THEN dataElement ELSE NULL

\* ------------------------------------------------------- list functions
NodeAt(list, pos) == list[pos]

HasNext(list, pos) == pos < Len(list)

RECURSIVE findPrevNodeFrom(_, _, _)
findPrevNodeFrom(list, cur_node, element) ==
    IF ~HasNext(list, cur_node)
    THEN [prev_node |-> cur_node, was_found |-> FALSE]
    ELSE LET result == compare_keys(element, NodeAt(list, cur_node + 1).key)
         IN  IF result = 0
             THEN [prev_node |-> cur_node, was_found |-> TRUE]
             ELSE IF result < 0
                  THEN [prev_node |-> cur_node, was_found |-> FALSE]
                  ELSE findPrevNodeFrom(list, cur_node + 1, element)

\* A faulty variant: the search without the break on result < 0 (lines
\* 201-204), so that it stops only at an equal key or at the end of the list.
RECURSIVE findPrevNodeNoBreakFrom(_, _, _)
findPrevNodeNoBreakFrom(list, cur_node, element) ==
    IF ~HasNext(list, cur_node)
    THEN [prev_node |-> cur_node, was_found |-> FALSE]
    ELSE IF compare_keys(element, NodeAt(list, cur_node + 1).key) = 0
         THEN [prev_node |-> cur_node, was_found |-> TRUE]
         ELSE findPrevNodeNoBreakFrom(list, cur_node + 1, element)

findPrevNodeNoBreak(map, element) ==
    findPrevNodeNoBreakFrom(map.first, Dummy, element)

\* A faulty variant: the search reporting the key found when it sorts before
\* the next node's key too (result <= 0 in place of result == 0 at line 197).
RECURSIVE findPrevNodeFoundOnLessFrom(_, _, _)
findPrevNodeFoundOnLessFrom(list, cur_node, element) ==
    IF ~HasNext(list, cur_node)
    THEN [prev_node |-> cur_node, was_found |-> FALSE]
    ELSE IF compare_keys(element, NodeAt(list, cur_node + 1).key) <= 0
         THEN [prev_node |-> cur_node, was_found |-> TRUE]
         ELSE findPrevNodeFoundOnLessFrom(list, cur_node + 1, element)

findPrevNodeFoundOnLess(map, element) ==
    findPrevNodeFoundOnLessFrom(map.first, Dummy, element)

findPrevNode(map, element) == findPrevNodeFrom(map.first, Dummy, element)

\* What createNewNode returns for NULL: no node.
NoNode == [key |-> NULL, data |-> NULL]

\* The allocation that fails during a mapPut, if it is attempted: the malloc
\* of the node, the copy of the key, of the data, or of both.
PutFaults == {"none", "node", "key", "data", "key_data"}

createNewNode(keyElement, dataElement, fault) ==
    IF fault = "node"
    THEN NoNode
    ELSE LET key == copy_key(keyElement, fault \notin {"key", "key_data"})
             data == copy_data(dataElement, fault \notin {"data", "key_data"})
         IN  IF key = NULL \/ data = NULL
             THEN NoNode
             ELSE [key |-> key, data |-> data]

\* A faulty variant: the insertion without new_node->next = prev_node->next
\* (line 231), which loses the nodes behind prev_node.
insertNewNodeDropRest(list, prev_node, new_node) ==
    SubSeq(list, 1, prev_node) \o <<new_node>>

insertNewNode(list, prev_node, new_node) ==
    SubSeq(list, 1, prev_node) \o <<new_node>> \o SubSeq(list, prev_node + 1, Len(list))

initializeMap ==
    [alive |-> TRUE, first |-> <<>>, size |-> 0, iterator |-> Dummy]

\* The node pointer ptr once freeList has released every node after the dummy
\* node: the code leaves the pointer as it is, so one that pointed to a node
\* of the list now points to a released node.
AfterFreeList(ptr) == IF ptr >= 1 THEN Released ELSE ptr

Deref(m) == IF m = NullMap THEN NoMap ELSE maps[m]

Store(m, map) == IF m = NullMap THEN maps ELSE [maps EXCEPT ![m] = map]

Keys(list) == [i \in 1..Len(list) |-> list[i].key]

\* --------------------------------------------------------- map functions
\* What fails in a mapCreate, if anything: one of the five functions given
\* is NULL, or the malloc of the map record or of the dummy node fails.
CreateFaults == {"none", "args", "map", "dummy"}

mapCreate(fault) ==
    IF fault = "args"
    THEN NoMap
    ELSE IF fault = "map"
         THEN NoMap
         ELSE IF fault = "dummy"
              THEN NoMap
              ELSE initializeMap

mapGetSize(m) == IF m = NullMap THEN -1 ELSE Deref(m).size

mapContains(m, element) ==
    IF m = NullMap \/ element = NULL
    THEN FALSE
    ELSE findPrevNode(Deref(m), element).was_found

mapGet(m, keyElement) ==
    IF m = NullMap \/ keyElement = NULL
    THEN NULL
    ELSE LET map == Deref(m)
             found == findPrevNode(map, keyElement)
         IN  IF ~found.was_found
             THEN NULL
             ELSE NodeAt(map.first, found.prev_node + 1).data

\* A faulty variant: the replacement that keeps the old data (line 353
\* without the assignment).
replaceDataKeepOld(map, prev_node, dataElement, fault) ==
    IF copy_data(dataElement, fault \notin {"data", "key_data"}) = NULL
    THEN [map |-> map, ret |-> MAP_OUT_OF_MEMORY]
    ELSE [map |-> [map EXCEPT !.iterator = NullNode], ret |-> MAP_SUCCESS]

\* The replacement of the data of the node after prev_node (mapPut, found).
replaceData(map, prev_node, dataElement, fault) ==
    LET data == copy_data(dataElement, fault \notin {"data", "key_data"})
        map1 == [map EXCEPT !.first[prev_node + 1].data = data]
    IN  IF data = NULL
        THEN [map |-> map1, ret |-> MAP_OUT_OF_MEMORY]
        ELSE [map |-> [map1 EXCEPT !.iterator = NullNode], ret |-> MAP_SUCCESS]

\* A faulty variant: the iterator reset of line 366 done before the node is
\* created, so that a failed insertion resets it too.
putNewNodeResetFirst(map, prev_node, keyElement, dataElement, fault) ==
    LET new_node == createNewNode(keyElement, dataElement, fault)
        map1 == [map EXCEPT !.iterator = NullNode]
    IN  IF new_node = NoNode
        THEN [map |-> map1, ret |-> MAP_OUT_OF_MEMORY]
        ELSE [map |-> [map1 EXCEPT !.first = insertNewNode(@, prev_node, new_node),
                                   !.size = @ + 1],
              ret |-> MAP_SUCCESS]

\* A faulty variant: the insertion without the iterator reset of line 366.
putNewNodeKeepIterator(map, prev_node, keyElement, dataElement, fault) ==
    LET new_node == createNewNode(keyElement, dataElement, fault)
    IN  IF new_node = NoNode
        THEN [map |-> map, ret |-> MAP_OUT_OF_MEMORY]
        ELSE [map |-> [map EXCEPT !.first = insertNewNode(@, prev_node, new_node),
                                  !.size = @ + 1],
              ret |-> MAP_SUCCESS]

\* The insertion of a new node after prev_node (mapPut, not found).
putNewNode(map, prev_node, keyElement, dataElement, fault) ==
    LET new_node == createNewNode(keyElement, dataElement, fault)
    IN  IF new_node = NoNode
        THEN [map |-> map, ret |-> MAP_OUT_OF_MEMORY]
        ELSE [map |-> [map EXCEPT !.first = insertNewNode(@, prev_node, new_node),
                                  !.size = @ + 1,
                                  !.iterator = NullNode],
              ret |-> MAP_SUCCESS]

mapPut(m, keyElement, dataElement, fault) ==
    IF m = NullMap \/ keyElement = NULL \/ dataElement = NULL
    THEN [map |-> Deref(m), ret |-> MAP_NULL_ARGUMENT]
    ELSE LET map == Deref(m)
             found == findPrevNode(map, keyElement)
         IN  IF found.was_found
             THEN replaceData(map, found.prev_node, dataElement, fault)
             ELSE putNewNode(map, found.prev_node, keyElement, dataElement, fault)

\* A faulty variant: the removal that unlinks the node behind the one found
\* (prev_node->next->next in place of prev_node->next at lines 395-396).
removeNodeBehind(map, prev_node) ==
    [map EXCEPT !.first = SubSeq(@, 1, prev_node + 1) \o SubSeq(@, prev_node + 3, Len(@)),
                !.size = @ - 1,
                !.iterator = NullNode]

\* A faulty variant: the removal without map->size -= 1 (line 399).
removeNodeKeepSize(map, prev_node) ==
    [map EXCEPT !.first = SubSeq(@, 1, prev_node) \o SubSeq(@, prev_node + 2, Len(@)),
                !.iterator = NullNode]

\* The unlinking and release of the node after prev_node (mapRemove, found).
removeNode(map, prev_node) ==
    [map EXCEPT !.first = SubSeq(@, 1, prev_node) \o SubSeq(@, prev_node + 2, Len(@)),
                !.size = @ - 1,
                !.iterator = NullNode]

mapRemove(m, keyElement) ==
    IF m = NullMap \/ keyElement = NULL
    THEN [map |-> Deref(m), ret |-> MAP_NULL_ARGUMENT]
    ELSE LET map == Deref(m)
             found == findPrevNode(map, keyElement)
         IN  IF ~found.was_found
             THEN [map |-> map, ret |-> MAP_ITEM_DOES_NOT_EXIST]
             ELSE [map |-> removeNode(map, found.prev_node), ret |-> MAP_SUCCESS]

mapGetFirst(m) ==
    IF m = NullMap \/ ~HasNext(Deref(m).first, Dummy)
    THEN [map |-> Deref(m), ret |-> NULL]
    ELSE LET map == [Deref(m) EXCEPT !.iterator = Dummy + 1]
         IN  [map |-> map, ret |-> NodeAt(map.first, map.iterator).key]

\* A faulty variant: mapGetNext returning the key of the node the iterator
\* leaves instead of the one it moves to (line 426 before line 423).
mapGetNextOldKey(m) ==
    IF m = NullMap
    THEN {[map |-> Deref(m), ret |-> NULL]}
    ELSE LET map == Deref(m)
         IN  IF map.iterator < 1 \/ ~HasNext(map.first, map.iterator)
             THEN {[map |-> map, ret |-> NULL]}
             ELSE {[map |-> [map EXCEPT !.iterator = @ + 1],
                    ret |-> NodeAt(map.first, map.iterator).key]}

\* The outcomes of mapGetNext: one, unless the iterator points to a released
\* node.  Then map->iterator->next reads released memory, which is undefined:
\* the value read is NULL (the call returns NULL) or some other address (the
\* iterator takes it and the call returns whatever lies at its key field).
mapGetNext(m) ==
    IF m = NullMap \/ Deref(m).iterator = NullNode
    THEN {[map |-> Deref(m), ret |-> NULL]}
    ELSE LET map == Deref(m)
         IN  IF map.iterator = Released
             THEN {[map |-> map, ret |-> k] : k \in KeyArgs}
             ELSE IF ~HasNext(map.first, map.iterator)
                  THEN {[map |-> map, ret |-> NULL]}
                  ELSE {[map |-> [map EXCEPT !.iterator = @ + 1],
                         ret |-> NodeAt(map.first, map.iterator + 1).key]}

\* A faulty variant: mapClear without map->size = 0 (line 437).
mapClearKeepSize(m) ==
    IF m = NullMap
    THEN [map |-> Deref(m), ret |-> MAP_NULL_ARGUMENT]
    ELSE [map |-> [Deref(m) EXCEPT !.first = <<>>,
                                   !.iterator = AfterFreeList(@)],
          ret |-> MAP_SUCCESS]

mapClear(m) ==
    IF m = NullMap
    THEN [map |-> Deref(m), ret |-> MAP_NULL_ARGUMENT]
    ELSE [map |-> [Deref(m) EXCEPT !.first = <<>>,
                                   !.size = 0,
                                   !.iterator = AfterFreeList(@)],
          ret |-> MAP_SUCCESS]

\* ------------------------------------------------------------- mapCopy
\* The allocation that fails during a copy, if any: the map record or the
\* dummy node in mapCreate, the at-th malloc of createNewList, or the copy of
\* the data, the key or both of the at-th element in copyList.
CopyFaults(length) ==
    {[what |-> w, at |-> 0] : w \in {"none", "map", "dummy"}}
        \cup {[what |-> w, at |-> i] : w \in {"node", "data", "key", "data_key"},
                                       i \in 1..length}

Uninitialized == [key |-> NULL, data |-> NULL]

createNewList(length, fault) ==
    IF fault.what = "node" /\ fault.at \in 1..length
    THEN [ok |-> FALSE, list |-> <<>>]
    ELSE [ok |-> length > 0, list |-> [i \in 1..length |-> Uninitialized]]

\* A faulty variant: copyList advancing src_list_cur one node late, so that
\* each new node takes the data of the node before the one whose key it takes.
copyListShifted(src_map, new_map, fault) ==
    LET new_list_head == createNewList(src_map.size, fault)
        src == src_map.first
        okData(i) == ~(fault.what \in {"data", "data_key"} /\ fault.at = i)
        okKey(i) == ~(fault.what \in {"key", "data_key"} /\ fault.at = i)
        copied == [i \in 1..Len(new_list_head.list) |->
                     IF i <= Len(src)
                     THEN [key |-> copy_key(src[i].key, okKey(i)),
                           data |-> copy_data(src[IF i = 1 THEN 1 ELSE i - 1].data,
                                              okData(i))]
                     ELSE Uninitialized]
    IN  IF ~new_list_head.ok
        THEN [map |-> new_map, ret |-> MAP_OUT_OF_MEMORY]
        ELSE IF \E i \in 1..Len(src) :
                    i <= Len(copied) /\ (copied[i].data = NULL \/ copied[i].key = NULL)
             THEN [map |-> new_map, ret |-> MAP_OUT_OF_MEMORY]
             ELSE [map |-> [new_map EXCEPT !.first = copied], ret |-> MAP_SUCCESS]

copyList(src_map, new_map, fault) ==
    LET new_list_head == createNewList(src_map.size, fault)
        src == src_map.first
        okData(i) == ~(fault.what \in {"data", "data_key"} /\ fault.at = i)
        okKey(i) == ~(fault.what \in {"key", "data_key"} /\ fault.at = i)
        copied == [i \in 1..Len(new_list_head.list) |->
                     IF i <= Len(src)
                     THEN [key |-> copy_key(src[i].key, okKey(i)),
                           data |-> copy_data(src[i].data, okData(i))]
                     ELSE Uninitialized]
    IN  IF ~new_list_head.ok
        THEN [map |-> new_map, ret |-> MAP_OUT_OF_MEMORY]
        ELSE IF \E i \in 1..Len(src) :
                    i <= Len(copied) /\ (copied[i].data = NULL \/ copied[i].key = NULL)
             THEN [map |-> new_map, ret |-> MAP_OUT_OF_MEMORY]
             ELSE [map |-> [new_map EXCEPT !.first = copied], ret |-> MAP_SUCCESS]

mapDestroy(m) == NoMap

\* A faulty variant: mapCopy without map->iterator = NULL (line 314), which
\* leaves the iterator of the map it copies where it stands.
mapCopyKeepIterator(m, fault) ==
    IF m = NullMap
    THEN [copy |-> NoMap, src |-> Deref(m)]
    ELSE LET map == Deref(m)
             created == mapCreate(IF fault.what \in {"map", "dummy"}
                                  THEN fault.what ELSE "none")
             map_copy == [created EXCEPT !.size = map.size]
             copied == IF map.size # 0
                       THEN copyList(map, map_copy, fault)
                       ELSE [map |-> map_copy, ret |-> MAP_SUCCESS]
         IN  IF created = NoMap \/ copied.ret # MAP_SUCCESS
             THEN [copy |-> NoMap, src |-> map]
             ELSE [copy |-> [copied.map EXCEPT !.iterator = NullNode],
                   src |-> map]

\* What mapCopy returns (copy: the new map, NoMap for NULL) and what it
\* leaves of the map it copies (src).
mapCopy(m, fault) ==
    IF m = NullMap
    THEN [copy |-> NoMap, src |-> Deref(m)]
    ELSE LET map == Deref(m)
             created == mapCreate(IF fault.what \in {"map", "dummy"}
                                  THEN fault.what ELSE "none")
             map_copy == [created EXCEPT !.size = map.size]
             copied == IF map.size # 0
                       THEN copyList(map, map_copy, fault)
                       ELSE [map |-> map_copy, ret |-> MAP_SUCCESS]
         IN  IF created = NoMap \/ copied.ret # MAP_SUCCESS
             THEN [copy |-> NoMap, src |-> map]
             ELSE [copy |-> [copied.map EXCEPT !.iterator = NullNode],
                   src |-> [map EXCEPT !.iterator = NullNode]]

\* --------------------------------------------------------------- memory
\* What each function allocates and releases, as the sequence of the calls it
\* makes to malloc, copy_key and copy_data that succeed and to free, free_key
\* and free_data, each with the reference it returns or is given.  A
\* reference names the allocation: the map that made it, the key element of
\* the node it was made for and the field of the node it is stored in.
Ref(owner, key, field) == [owner |-> owner, key |-> key, field |-> field]

\* The NULL pointer, and the content of a field of a node that malloc
\* returned and nothing was assigned to.
NullRef == Ref(NullMap, NULL, "NULL")

UninitRef == Ref(NullMap, NULL, "uninitialized")

MapRef(m) == Ref(m, NULL, "map")

DummyRef(m) == Ref(m, NULL, "node")

NodeRef(m, k) == Ref(m, k, "node")

KeyRef(m, k, key) == IF key = NULL THEN NullRef ELSE Ref(m, k, "key")

DataRef(m, k, data) == IF data = NULL THEN NullRef ELSE Ref(m, k, "data")

Event(fn, ref) == [fn |-> fn, ref |-> ref]

Allocators == {"malloc", "copy_key", "copy_data"}

\* The call of an allocator: an event if it returned a reference, none if it
\* returned NULL.
Made(fn, ref) == IF ref = NullRef THEN <<>> ELSE <<Event(fn, ref)>>

\* The pointers of a node of map m made for key element k: its own address
\* and its key and data fields.
NodeRefs(m, k, node) ==
    [node |-> NodeRef(m, k), key |-> KeyRef(m, k, node.key),
     data |-> DataRef(m, k, node.data)]

UninitRefs(m, k) == [node |-> NodeRef(m, k), key |-> UninitRef, data |-> UninitRef]

ListRefs(m, list) == [i \in 1..Len(list) |-> NodeRefs(m, list[i].key, list[i])]

\* A faulty variant: freeNode without map->free_key(node->key) (line 124).
freeNodeKeepKey(node) ==
    <<Event("free_data", node.data), Event("free", node.node)>>

freeNode(node) ==
    <<Event("free_data", node.data), Event("free_key", node.key),
      Event("free", node.node)>>

RECURSIVE freeList(_)
freeList(list) ==
    IF list = <<>> THEN <<>> ELSE freeNode(Head(list)) \o freeList(Tail(list))

\* The j-th node createNewList allocates is put in front of those before it,
\* so it is the node of position length - j + 1; when a malloc fails only the
\* node allocated last (the head) is released.
createNewListEvents(c, src, length, fault) ==
    LET name(j) == NodeRef(c, src[length - j + 1].key)
        failing == fault.what = "node" /\ fault.at \in 1..length
        count == IF failing THEN fault.at - 1 ELSE length
        mallocs == [j \in 1..count |-> Event("malloc", name(j))]
    IN  IF failing
        THEN mallocs \o <<Event("free", IF count = 0 THEN NullRef ELSE name(count))>>
        ELSE mallocs

RECURSIVE copyEvents(_, _, _, _)
copyEvents(c, src, copied, i) ==
    IF i > Len(copied)
    THEN <<>>
    ELSE Made("copy_data", DataRef(c, src[i].key, copied[i].data))
             \o Made("copy_key", KeyRef(c, src[i].key, copied[i].key))
             \o copyEvents(c, src, copied, i + 1)

copyListEvents(m, c, fault) ==
    LET src_map == Deref(m)
        src == src_map.first
        length == src_map.size
        new_list_head == createNewList(length, fault)
        okData(i) == ~(fault.what \in {"data", "data_key"} /\ fault.at = i)
        okKey(i) == ~(fault.what \in {"key", "data_key"} /\ fault.at = i)
        copy(i) == [key |-> copy_key(src[i].key, okKey(i)),
                    data |-> copy_data(src[i].data, okData(i))]
        failing == {i \in 1..length : copy(i).data = NULL \/ copy(i).key = NULL}
        stop == IF failing = {} THEN length
                ELSE CHOOSE i \in failing : \A j \in failing : i <= j
        copied == [i \in 1..stop |-> copy(i)]
        new_list == [i \in 1..length |->
                       IF i <= stop THEN NodeRefs(c, src[i].key, copied[i])
                       ELSE UninitRefs(c, src[i].key)]
    IN  createNewListEvents(c, src, length, fault)
            \o IF ~new_list_head.ok
               THEN <<>>
               ELSE copyEvents(c, src, copied, 1)
                        \o IF failing # {} THEN freeList(new_list) ELSE <<>>

createNewNodeEvents(m, keyElement, dataElement, fault) ==
    IF fault = "node"
    THEN <<>>
    ELSE LET key == copy_key(keyElement, fault \notin {"key", "key_data"})
             data == copy_data(dataElement, fault \notin {"data", "key_data"})
             new_node == NodeRefs(m, keyElement, [key |-> key, data |-> data])
             made == <<Event("malloc", new_node.node)>>
                         \o Made("copy_key", new_node.key)
                         \o Made("copy_data", new_node.data)
         IN  IF key = NULL \/ data = NULL
             THEN made \o freeNode(new_node)
             ELSE made

mapCreateEvents(m, fault) ==
    IF fault \in {"args", "map"}
    THEN <<>>
    ELSE IF fault = "dummy"
         THEN <<Event("malloc", MapRef(m)), Event("free", MapRef(m))>>
         ELSE <<Event("malloc", MapRef(m)), Event("malloc", DummyRef(m))>>

mapPutEvents(m, keyElement, dataElement, fault) ==
    IF m = NullMap \/ keyElement = NULL \/ dataElement = NULL
    THEN <<>>
    ELSE LET map == Deref(m)
             found == findPrevNode(map, keyElement)
             old == NodeAt(map.first, found.prev_node + 1)
             data == copy_data(dataElement, fault \notin {"data", "key_data"})
         IN  IF found.was_found
             THEN <<Event("free_data", DataRef(m, keyElement, old.data))>>
                      \o Made("copy_data", DataRef(m, keyElement, data))
             ELSE createNewNodeEvents(m, keyElement, dataElement, fault)

mapRemoveEvents(m, keyElement) ==
    IF m = NullMap \/ keyElement = NULL
    THEN <<>>
    ELSE LET map == Deref(m)
             found == findPrevNode(map, keyElement)
             node_to_remove == NodeAt(map.first, found.prev_node + 1)
         IN  IF ~found.was_found
             THEN <<>>
             ELSE freeNode(NodeRefs(m, node_to_remove.key, node_to_remove))

mapClearEvents(m) ==
    IF m = NullMap THEN <<>> ELSE freeList(ListRefs(m, Deref(m).first))

mapDestroyEvents(m) ==
    IF m = NullMap
    THEN <<>>
    ELSE mapClearEvents(m) \o <<Event("free", DummyRef(m)), Event("free", MapRef(m))>>

\* mapCopy of map m, the new map being c: a failed copyList leaves the new
\* map with no node after its dummy node, so the mapDestroy of line 309
\* releases the dummy node and the map record only.
mapCopyEvents(m, c, fault) ==
    IF m = NullMap
    THEN <<>>
    ELSE LET create == IF fault.what \in {"map", "dummy"} THEN fault.what ELSE "none"
             copied == IF Deref(m).size # 0
                       THEN copyList(Deref(m), initializeMap, fault).ret
                       ELSE MAP_SUCCESS
         IN  mapCreateEvents(c, create)
                 \o IF create # "none" \/ Deref(m).size = 0
                    THEN <<>>
                    ELSE copyListEvents(m, c, fault)
                             \o IF copied # MAP_SUCCESS
                                THEN <<Event("free", DummyRef(c)), Event("free", MapRef(c))>>
                                ELSE <<>>

\* The allocations that are live after the events, h being those live before.
Apply(h, e) == IF e.fn \in Allocators THEN h \cup {e.ref} ELSE h \ {e.ref}

RECURSIVE After(_, _)
After(h, events) ==
    IF events = <<>> THEN h ELSE After(Apply(h, Head(events)), Tail(events))

\* A release of something that is not a live allocation: of NULL (free(NULL)
\* apart, which the C library defines), of an unassigned field, or of an
\* allocation that has been released.
Improper(h, e) ==
    /\ e.fn \notin Allocators
    /\ e.ref \notin h
    /\ ~(e.fn = "free" /\ e.ref = NullRef)

RECURSIVE BadReleases(_, _)
BadReleases(h, events) ==
    IF events = <<>>
    THEN {}
    ELSE (IF Improper(h, Head(events)) THEN {Head(events)} ELSE {})
             \cup BadReleases(Apply(h, Head(events)), Tail(events))

RECURSIVE Releases(_, _)
Releases(h, events) ==
    IF events = <<>>
    THEN {}
    ELSE (IF Head(events).fn \notin Allocators /\ Head(events).ref \in h
          THEN {Head(events)} ELSE {})
             \cup Releases(Apply(h, Head(events)), Tail(events))

\* The call reads a field that was never assigned and hands it to free_data
\* or free_key, which is undefined.
ReadsUninitialized(events) ==
    \E i \in 1..Len(events) : events[i].ref = UninitRef

\* The allocations the maps ms hold: of each live map the record, the dummy
\* node and, for each node, the node, its key and its data.
Held(ms) ==
    UNION {{MapRef(m), DummyRef(m)}
               \cup UNION {{NodeRef(m, ms[m].first[i].key),
                            KeyRef(m, ms[m].first[i].key, ms[m].first[i].key),
                            DataRef(m, ms[m].first[i].key, ms[m].first[i].data)}
                              : i \in 1..Len(ms[m].first)}
              : m \in {x \in MapIds : ms[x].alive}} \ {NullRef}

NoMemory == [bad |-> {}, leaked |-> {}, released |-> {}, made |-> {}]

\* The events of a call are recorded: heap is what is allocated and held by a
\* map after it, mem what the call released improperly, what it released
\* properly, what it allocated and what it left allocated that no map holds.
Memory(events) ==
    /\ UNCHANGED accounting
    /\ IF accounting
       THEN LET h == After(heap, events)
            IN  /\ heap' = h \cap Held(maps')
                /\ mem' = [bad |-> BadReleases(heap, events),
                           leaked |-> h \ Held(maps'),
                           released |-> Releases(heap, events),
                           made |-> {events[i].ref : i \in {j \in 1..Len(events) :
                                                             events[j].fn \in Allocators}}]
       ELSE UNCHANGED <<heap, mem>>

\* ------------------------------------------------------ history variables
\* The history variables observe the calls and never influence them.  They
\* are a function of the call just made, c, and of the state it was made in.

\* The finite function f with key set to data, and with key taken out.
AbsPut(f, key, data) ==
    [x \in (DOMAIN f) \cup {key} |-> IF x = key THEN data ELSE f[x]]

AbsRemove(f, key) == [x \in (DOMAIN f) \ {key} |-> f[x]]

AbsEmpty == [m \in MapIds |-> <<>>]

\* The call c met a failing allocation.
Failed(c) ==
    \/ c.op = "mapPut" /\ c.ret = MAP_OUT_OF_MEMORY
    \/ c.op = "mapCreate" /\ c.fault \in {"map", "dummy"}
    \/ c.op = "mapCopy" /\ c.map # NullMap /\ c.ret = FALSE
    \/ c.op = "abort"

\* The call c changed the list of its map.
Mutated(c) ==
    /\ c.op \in {"mapPut", "mapRemove", "mapClear"}
    /\ c.ret = MAP_SUCCESS

\* abs is kept while no allocation has failed, and dropped from then on.
AbsStep(c, copy) ==
    IF ~noFail \/ Failed(c)
    THEN AbsEmpty
    ELSE IF Mutated(c)
         THEN [abs EXCEPT ![c.map] =
                 IF c.op = "mapPut" THEN AbsPut(@, c.key, c.data)
                 ELSE IF c.op = "mapRemove" THEN AbsRemove(@, c.key)
                 ELSE <<>>]
         ELSE IF c.op \in {"mapCreate", "mapDestroy"}
              THEN [abs EXCEPT ![c.map] = <<>>]
              ELSE IF c.op = "mapCopy"
                   THEN [abs EXCEPT ![copy] = abs[c.map]]
                   ELSE abs

InProgress(m) == m # NullMap /\ enum[m] \in {"active", "done"}

\* enum[m] is "idle" before the first mapGetFirst that returns a key, then
\* "active" while mapGetFirst and mapGetNext return keys, "done" once
\* mapGetNext has returned NULL, and "stale<Op>" once a call that changed
\* the list (or copied the map) has come between; pass[m] holds the keys
\* returned since that mapGetFirst while the enumeration is in progress.
EnumStep(c) ==
    IF c.op \in {"mapCreate", "mapDestroy"}
    THEN [enum EXCEPT ![c.map] = "idle"]
    ELSE IF c.map = NullMap
         THEN enum
         ELSE IF Mutated(c) \/ (c.op = "mapCopy" /\ c.ret)
              THEN IF InProgress(c.map)
                   THEN [enum EXCEPT ![c.map] =
                           IF c.op = "mapPut" THEN "stalePut"
                           ELSE IF c.op = "mapRemove" THEN "staleRemove"
                           ELSE IF c.op = "mapClear" THEN "staleClear"
                           ELSE "staleCopy"]
                   ELSE enum
              ELSE IF c.op = "mapGetFirst" /\ c.ret # NULL
                   THEN [enum EXCEPT ![c.map] = "active"]
                   ELSE IF c.op = "mapGetNext" /\ c.ret = NULL
                           /\ enum[c.map] = "active"
                        THEN [enum EXCEPT ![c.map] = "done"]
                        ELSE enum

PassStep(c) ==
    IF c.op \in {"mapCreate", "mapDestroy"}
    THEN [pass EXCEPT ![c.map] = <<>>]
    ELSE IF c.map = NullMap
         THEN pass
         ELSE IF Mutated(c) \/ (c.op = "mapCopy" /\ c.ret)
              THEN [pass EXCEPT ![c.map] = <<>>]
              ELSE IF c.op = "mapGetFirst" /\ c.ret # NULL
                   THEN [pass EXCEPT ![c.map] = <<c.ret>>]
                   ELSE IF c.op = "mapGetNext" /\ c.ret # NULL
                           /\ enum[c.map] = "active"
                        THEN [pass EXCEPT ![c.map] = Append(@, c.ret)]
                        ELSE pass

\* The call c is recorded; copy is the handle of the new map of a mapCopy.
History(c, copy) ==
    /\ UNCHANGED history
    /\ IF history
       THEN /\ last' = c
            /\ noFail' = (noFail /\ ~Failed(c))
            /\ abs' = AbsStep(c, copy)
            /\ enum' = EnumStep(c)
            /\ pass' = PassStep(c)
       ELSE /\ last' = [c EXCEPT !.key = NULL, !.data = NULL, !.fault = "none",
                                    !.found = FALSE]
            /\ noFail' = IF accounting THEN noFail /\ ~Failed(c) ELSE noFail
            /\ UNCHANGED <<abs, enum, pass>>

Alive(m) == IF m = NullMap THEN TRUE ELSE maps[m].alive

\* ---------------------------------------------------------------- actions
Create(m, fault) ==
    /\ ~maps[m].alive
    /\ \E map \in {mapCreate(fault)} :
           /\ maps' = Store(m, map)
           /\ History(Call("mapCreate", m, NULL, NULL, fault, FALSE, map.alive), m)
           /\ Memory(mapCreateEvents(m, fault))

Destroy(m) ==
    /\ maps[m].alive
    /\ maps' = Store(m, mapDestroy(m))
    /\ History(Call("mapDestroy", m, NULL, NULL, "none", FALSE, NULL), m)
    /\ Memory(mapDestroyEvents(m))

Put(m, keyElement, dataElement, fault) ==
    /\ Alive(m)
    /\ \E r \in {mapPut(m, keyElement, dataElement, fault)} :
           /\ maps' = Store(m, r.map)
           /\ History(Call("mapPut", m, keyElement, dataElement, fault,
                          mapContains(m, keyElement), r.ret), m)
           /\ Memory(mapPutEvents(m, keyElement, dataElement, fault))

Remove(m, keyElement) ==
    /\ Alive(m)
    /\ \E r \in {mapRemove(m, keyElement)} :
           /\ maps' = Store(m, r.map)
           /\ History(Call("mapRemove", m, keyElement, NULL, "none",
                          mapContains(m, keyElement), r.ret), m)
           /\ Memory(mapRemoveEvents(m, keyElement))

Clear(m) ==
    /\ Alive(m)
    /\ \E r \in {mapClear(m)} :
           /\ maps' = Store(m, r.map)
           /\ History(Call("mapClear", m, NULL, NULL, "none", FALSE, r.ret), m)
           /\ Memory(mapClearEvents(m))

GetFirst(m) ==
    /\ Alive(m)
    /\ \E r \in {mapGetFirst(m)} :
           /\ maps' = Store(m, r.map)
           /\ History(Call("mapGetFirst", m, NULL, NULL, "none", FALSE, r.ret), m)
           /\ Memory(<<>>)

GetNext(m) ==
    /\ Alive(m)
    /\ \E r \in mapGetNext(m) :
           /\ maps' = Store(m, r.map)
           /\ History(Call("mapGetNext", m, NULL, NULL, "none", FALSE, r.ret), m)
           /\ Memory(<<>>)

Contains(m, element) ==
    /\ Alive(m)
    /\ UNCHANGED maps
    /\ History(Call("mapContains", m, element, NULL, "none", FALSE, mapContains(m, element)), m)
    /\ Memory(<<>>)

\* A faulty variant: mapGet ending with map->iterator = NULL, as the calls
\* that change the list do.
GetResetIterator(m, keyElement) ==
    /\ Alive(m)
    /\ maps' = Store(m, [Deref(m) EXCEPT !.iterator = NullNode])
    /\ History(Call("mapGet", m, keyElement, NULL, "none", FALSE, mapGet(m, keyElement)), m)
    /\ Memory(<<>>)

Get(m, keyElement) ==
    /\ Alive(m)
    /\ UNCHANGED maps
    /\ History(Call("mapGet", m, keyElement, NULL, "none", FALSE, mapGet(m, keyElement)), m)
    /\ Memory(<<>>)

GetSize(m) ==
    /\ Alive(m)
    /\ UNCHANGED maps
    /\ History(Call("mapGetSize", m, NULL, NULL, "none", FALSE, mapGetSize(m)), m)
    /\ Memory(<<>>)

\* mapCopy(m), its result stored behind the handle c the client keeps it in.
\* A copyList that fails before the last node hands the unassigned fields of
\* the nodes behind it to free_data and free_key (line 174), which is
\* undefined: the call either goes on as if they had released nothing, or
\* the program ends there, and with it every map.
Copy(m, c, fault) ==
    /\ m # c
    /\ Alive(m)
    /\ ~maps[c].alive
    /\ \E r \in {mapCopy(m, fault)}, events \in {mapCopyEvents(m, c, fault)} :
           \/ /\ maps' = [Store(m, r.src) EXCEPT ![c] = r.copy]
              /\ History(Call("mapCopy", m, NULL, NULL, fault.what, FALSE, r.copy.alive), c)
              /\ Memory(events)
           \/ /\ ReadsUninitialized(events)
              /\ maps' = [x \in MapIds |-> NoMap]
              /\ History(Call("abort", m, NULL, NULL, fault.what, FALSE, FALSE), c)
              /\ Memory(events)

\* ---------------------------------------------------------- specifications
\* The arguments of the calls on the maps ms: every key and data element,
\* the NULL ones too, on each map, and one call on the NULL map.
MapArgs(ms) == ms \cup {NullMap}

KeyCalls(ms) == (ms \X KeyArgs) \cup {<<NullMap, 1>>}

PutCalls(ms) ==
    (ms \X KeyElements \X DataElements \X PutFaults)
        \cup {<<m, k, d, "none">> : m \in ms, k \in KeyArgs, d \in DataArgs}
        \cup {<<NullMap, 1, 1, "none">>}

InitMaps ==
    /\ maps = [m \in MapIds |-> NoMap]
    /\ last = Call("none", NullMap, NULL, NULL, "none", FALSE, NULL)
    /\ noFail = TRUE
    /\ abs = AbsEmpty
    /\ enum = [m \in MapIds |-> "idle"]
    /\ pass = [m \in MapIds |-> <<>>]
    /\ heap = {}
    /\ mem = NoMemory

\* One map and every call on it, with the history kept.
Init == InitMaps /\ history = TRUE /\ accounting = FALSE

Next ==
    \/ \E fault \in CreateFaults : Create("src", fault)
    \/ Destroy("src")
    \/ \E c \in PutCalls({"src"}) : Put(c[1], c[2], c[3], c[4])
    \/ \E c \in KeyCalls({"src"}) : Remove(c[1], c[2])
    \/ \E m \in MapArgs({"src"}) : Clear(m)
    \/ \E m \in MapArgs({"src"}) : GetFirst(m)
    \/ \E m \in MapArgs({"src"}) : GetNext(m)
    \/ \E c \in KeyCalls({"src"}) : Contains(c[1], c[2])
    \/ \E c \in KeyCalls({"src"}) : Get(c[1], c[2])
    \/ \E m \in MapArgs({"src"}) : GetSize(m)

Spec == Init /\ [][Next]_vars

\* A map and the copy made of it, over the keys 1..MaxCopyKey, with only the
\* last call recorded: the states of two maps multiply.
InitCopy == InitMaps /\ history = FALSE /\ accounting = FALSE

CopyKeys == 1..MaxCopyKey

\* The failures of a mapPut that differ in what they leave of the map: none,
\* and that of copy_data, which fails an insertion and a replacement alike
\* (the malloc of the node and copy_key fail an insertion the same way and
\* are not reached by a replacement).
CopyPutFaults == {"none", "data"}

NextCopy ==
    \/ \E fault \in CreateFaults : Create("src", fault)
    \/ \E m \in MapIds : Destroy(m)
    \/ \E m \in MapArgs(MapIds), c \in MapIds :
           \E fault \in CopyFaults(Deref(m).size) : Copy(m, c, fault)
    \/ \E m \in MapIds, k \in CopyKeys, d \in DataElements, fault \in CopyPutFaults :
           Put(m, k, d, fault)
    \/ \E m \in MapIds, k \in CopyKeys : Remove(m, k)
    \/ \E m \in MapIds : Clear(m)
    \/ \E m \in MapIds : GetFirst(m)
    \/ \E m \in MapIds : GetNext(m)

SpecCopy == InitCopy /\ [][NextCopy]_vars

\* A map and the copy made of it, over the keys 1..MaxMemKey, with every
\* call that allocates or releases memory and the memory accounted for.
InitMem == InitMaps /\ history = FALSE /\ accounting = TRUE

MemKeys == 1..MaxMemKey

NextMem ==
    \/ \E fault \in CreateFaults : Create("src", fault)
    \/ \E m \in MapIds : Destroy(m)
    \/ \E m \in MapIds, c \in MapIds :
           \E fault \in CopyFaults(Deref(m).size) : Copy(m, c, fault)
    \/ \E m \in MapIds, k \in MemKeys, fault \in PutFaults : Put(m, k, 1, fault)
    \/ \E m \in MapIds, k \in MemKeys : Remove(m, k)
    \/ \E m \in MapIds : Clear(m)

SpecMem == InitMem /\ [][NextMem]_vars

\* The same with no allocation and no copy failing.
NoFault == [what |-> "none", at |-> 0]

NextOwn ==
    \/ Create("src", "none")
    \/ \E m \in MapIds : Destroy(m)
    \/ \E m \in MapIds, c \in MapIds : Copy(m, c, NoFault)
    \/ \E m \in MapIds, k \in MemKeys, d \in DataElements : Put(m, k, d, "none")
    \/ \E m \in MapIds, k \in MemKeys : Remove(m, k)
    \/ \E m \in MapIds : Clear(m)

SpecOwn == InitMem /\ [][NextOwn]_vars

\* ------------------------------------------------------------ properties
LiveMaps == {m \in MapIds : maps[m].alive}

StrictlyIncreasing(keys) ==
    \A i \in 1..(Len(keys) - 1) : compare_keys(keys[i], keys[i + 1]) < 0

\* C1: in every reachable state of every map, whatever calls of mapCreate,
\* mapPut, mapRemove, mapClear and mapCopy led to it and whether they failed,
\* the keys of the nodes after the dummy node are strictly increasing under
\* compare_keys; no two nodes hold keys that compare equal.
C1_SortedChain ==
    \A m \in LiveMaps :
        /\ StrictlyIncreasing(Keys(maps[m].first))
        /\ \A i, j \in 1..Len(maps[m].first) :
               i # j => compare_keys(maps[m].first[i].key, maps[m].first[j].key) # 0

\* A map that holds every key and a copy of it that does too.
C1_Witness ==
    /\ maps["src"].alive /\ maps["cpy"].alive
    /\ Len(maps["src"].first) = MaxCopyKey
    /\ Len(maps["cpy"].first) = MaxCopyKey

\* C2: in every reachable state of every map the size field is the number of
\* nodes after the dummy node, and mapGetSize returns that number.
C2_SizeIsLength ==
    \A m \in LiveMaps :
        /\ maps[m].size = Len(maps[m].first)
        /\ mapGetSize(m) = Len(maps[m].first)

\* A copy that still holds nodes after a mapRemove took one out.
C2_Witness ==
    /\ last.op = "mapRemove" /\ last.ret = MAP_SUCCESS /\ last.map = "cpy"
    /\ maps["cpy"].size >= 1
    /\ maps["src"].alive /\ maps["src"].size > maps["cpy"].size

\* C3: while no allocation and no copy has failed, the map is the finite
\* function abs that the mapPut, mapRemove and mapClear calls describe:
\* mapContains(k) holds exactly for the keys of its domain, mapGet(k) returns
\* the data of the most recent mapPut of k (NULL outside the domain), and
\* mapGetSize returns the number of keys of the domain.
C3_Refinement ==
    noFail =>
        \A m \in LiveMaps :
            /\ \A k \in KeyElements :
                   /\ mapContains(m, k) <=> k \in DOMAIN abs[m]
                   /\ mapGet(m, k) = IF k \in DOMAIN abs[m] THEN abs[m][k] ELSE NULL
            /\ mapGetSize(m) = Cardinality(DOMAIN abs[m])

\* A full map in which a mapPut has just replaced the data of a key.
C3_Witness ==
    /\ noFail
    /\ last.op = "mapPut" /\ last.found /\ last.ret = MAP_SUCCESS
    /\ Cardinality(DOMAIN abs["src"]) = MaxKey
    /\ abs["src"][last.key] = last.data

\* C4: the keys an enumeration has returned (mapGetFirst, then mapGetNext),
\* with no call that changes the list in between, are the keys of the first
\* nodes of the list, strictly increasing and without duplicates; once
\* mapGetNext has returned NULL they are all size keys, and every further
\* mapGetNext returns NULL and leaves the map as it is.
C4_Enumeration ==
    \A m \in LiveMaps :
        /\ enum[m] \in {"active", "done"} =>
               /\ Len(pass[m]) >= 1
               /\ Len(pass[m]) <= Len(maps[m].first)
               /\ pass[m] = SubSeq(Keys(maps[m].first), 1, Len(pass[m]))
               /\ StrictlyIncreasing(pass[m])
               /\ \A i, j \in 1..Len(pass[m]) : i # j => pass[m][i] # pass[m][j]
        /\ enum[m] = "done" =>
               /\ Len(pass[m]) = maps[m].size
               /\ \A r \in mapGetNext(m) : r.ret = NULL /\ r.map = maps[m]
               /\ (last.op = "mapGetNext" /\ last.map = m) => last.ret = NULL

\* An enumeration of a full map that has ended: mapGetNext returned NULL.
C4_Witness ==
    /\ enum["src"] = "done"
    /\ Len(pass["src"]) = MaxKey
    /\ last.op = "mapGetNext" /\ last.ret = NULL

\* The nodes of map m other than that of key k are the same, with the same
\* data and in the same order, before and after the step.
OthersUnchanged(m, k) ==
    SelectSeq(maps'[m].first, LAMBDA n : n.key # k)
        = SelectSeq(maps[m].first, LAMBDA n : n.key # k)

\* C5: a successful mapPut of a key that is in the map replaces its data
\* (mapGet then returns the new data) and leaves size as it is; one of a key
\* that is not in the map adds 1 to size; both leave the entry of every other
\* key as it is.
C5_PutStep ==
    (last'.op = "mapPut" /\ last'.ret = MAP_SUCCESS)
    => \A m \in MapIds, k \in KeyElements, d \in DataElements :
           (last'.map = m /\ last'.key = k /\ last'.data = d)
           => /\ mapContains(m, k)'
              /\ mapGet(m, k)' = d
              /\ maps'[m].size = IF mapContains(m, k) THEN maps[m].size
                                 ELSE maps[m].size + 1
              /\ mapGetSize(m)' = maps'[m].size
              /\ OthersUnchanged(m, k)

C5_PutEffect == [][C5_PutStep]_vars

\* A mapPut has replaced the data of a key of a full map by other data.
C5_Witness ==
    /\ last.op = "mapPut" /\ last.found /\ last.ret = MAP_SUCCESS
    /\ maps["src"].size = MaxKey
    /\ mapGet("src", last.key) = last.data
    /\ \E k \in KeyElements \ {last.key} : mapGet("src", k) # last.data

\* C6: mapRemove of a key that is in the map returns MAP_SUCCESS, takes 1
\* from size, makes mapContains of the key false and leaves every other
\* entry as it is; mapRemove of a key that is not in the map returns
\* MAP_ITEM_DOES_NOT_EXIST and leaves the list, size and the iterator as
\* they are.
C6_RemoveStep ==
    (last'.op = "mapRemove")
    => \A m \in MapIds, k \in KeyElements :
           (last'.map = m /\ last'.key = k)
           => IF mapContains(m, k)
              THEN /\ last'.ret = MAP_SUCCESS
                   /\ maps'[m].size = maps[m].size - 1
                   /\ mapGetSize(m)' = mapGetSize(m) - 1
                   /\ ~mapContains(m, k)'
                   /\ OthersUnchanged(m, k)
              ELSE /\ last'.ret = MAP_ITEM_DOES_NOT_EXIST
                   /\ maps'[m] = maps[m]

C6_RemoveEffect == [][C6_RemoveStep]_vars

\* A mapRemove has taken a key out of a full map.
C6_Witness ==
    /\ last.op = "mapRemove" /\ last.found /\ last.ret = MAP_SUCCESS
    /\ maps["src"].size = MaxKey - 1
    /\ ~mapContains("src", last.key)

\* C7: a mapPut of a key that is in the map whose copy of the new data fails
\* returns MAP_OUT_OF_MEMORY and leaves the old data in place: the key is
\* still in the map and mapGet returns the data it returned before.
C7_FailedReplaceStep ==
    \A m \in MapIds, k \in KeyElements :
        (/\ last'.op = "mapPut" /\ last'.map = m /\ last'.key = k
         /\ last'.data # NULL
         /\ last'.fault \in {"data", "key_data"}
         /\ mapContains(m, k))
        => /\ last'.ret = MAP_OUT_OF_MEMORY
           /\ mapContains(m, k)'
           /\ mapGet(m, k)' = mapGet(m, k)

C7_FailedReplaceKeepsOld == [][C7_FailedReplaceStep]_vars

\* C8: a mapPut of a key that is not in the map in which the malloc of the
\* node, the copy of the key or the copy of the data fails returns
\* MAP_OUT_OF_MEMORY and leaves the map as it is: the list, size and the
\* iterator.
C8_FailedInsertLeavesMap ==
    /\ \A m \in LiveMaps, k \in KeyElements, d \in DataElements :
           ~mapContains(m, k) =>
               \A fault \in PutFaults \ {"none"} :
                   mapPut(m, k, d, fault) = [map |-> maps[m], ret |-> MAP_OUT_OF_MEMORY]
    /\ (/\ last.op = "mapPut" /\ last.map # NullMap
        /\ last.key # NULL /\ last.data # NULL
        /\ ~last.found /\ last.fault # "none")
       => /\ last.ret = MAP_OUT_OF_MEMORY
          /\ ~mapContains(last.map, last.key)

\* A mapPut of a new key has failed in the middle of an enumeration, which
\* the iterator still stands in.
C8_Witness ==
    /\ last.op = "mapPut" /\ ~last.found /\ last.ret = MAP_OUT_OF_MEMORY
    /\ last.fault = "data"
    /\ enum["src"] = "active"
    /\ maps["src"].iterator = 1
    /\ maps["src"].size = MaxKey - 1

\* C9: after a mapClear during an enumeration in progress, mapGetNext
\* returns NULL, and keeps returning NULL until mapGetFirst returns a key.
C9_ClearInvalidates ==
    \A m \in LiveMaps :
        (enum[m] = "staleClear" /\ last.op = "mapGetNext" /\ last.map = m)
        => last.ret = NULL

\* C10: after a successful mapPut or mapRemove during an enumeration in
\* progress, the iterator is NULL and every mapGetNext returns NULL and
\* leaves it so, until mapGetFirst returns a key.
C10_MutationInvalidates ==
    \A m \in LiveMaps :
        enum[m] \in {"stalePut", "staleRemove"} =>
            /\ maps[m].iterator = NullNode
            /\ \A r \in mapGetNext(m) : r.ret = NULL /\ r.map = maps[m]
            /\ (last.op = "mapGetNext" /\ last.map = m) => last.ret = NULL

\* A mapGetNext after a mapPut that came into an enumeration which had keys
\* left to return.
C10_Witness ==
    /\ enum["src"] = "stalePut"
    /\ last.op = "mapGetNext" /\ last.ret = NULL
    /\ maps["src"].size = MaxKey


\* C11: a successful mapCopy sets the iterator of the map it copies and of
\* the new map to NULL, whether the map holds nodes or is empty; on a map
\* whose iterator is NULL every mapGetNext returns NULL and leaves the map as
\* it is, so that it keeps returning NULL until another call sets the
\* iterator.
C11_CopyInvalidates ==
    /\ (last.op = "mapCopy" /\ last.map # NullMap /\ last.ret) =>
           \A m \in MapIds :
               /\ maps[m].alive
               /\ maps[m].iterator = NullNode
               /\ \A r \in mapGetNext(m) : r.ret = NULL /\ r.map = maps[m]
    /\ \A m \in LiveMaps :
           (last.op = "mapGetNext" /\ last.map = m /\ maps[m].iterator = NullNode)
           => last.ret = NULL

\* A mapGetNext on the copy of a full map, made by a mapCopy that succeeded:
\* both iterators are NULL and the call returned NULL.
C11_Witness ==
    /\ last.op = "mapGetNext" /\ last.map = "cpy" /\ last.ret = NULL
    /\ maps["src"].alive /\ maps["cpy"].alive
    /\ maps["src"].first = maps["cpy"].first
    /\ Len(maps["cpy"].first) = MaxCopyKey
    /\ maps["src"].iterator = NullNode /\ maps["cpy"].iterator = NullNode


\* C12: a mapCopy that succeeds returns a map with the size of the map it
\* copies and the same keys with the same data in the same order, so that an
\* enumeration of either returns the same keys and mapGet the same data, and
\* leaves the list and size of the map it copies as they are; from then on a
\* mapPut, mapRemove or mapClear on one of the two maps leaves the list and
\* size of the other as they are.
C12_CopyEqual ==
    (last.op = "mapCopy" /\ last.map # NullMap /\ last.ret) =>
           /\ mapGetSize("cpy") = mapGetSize("src")
           /\ maps["cpy"].first = maps["src"].first
           /\ mapGetFirst("cpy").ret = mapGetFirst("src").ret
           /\ \A k \in KeyElements :
                  /\ mapContains("cpy", k) = mapContains("src", k)
                  /\ mapGet("cpy", k) = mapGet("src", k)

C12_IndependentStep ==
    /\ (last'.op = "mapCopy" /\ last'.map # NullMap) =>
           /\ maps'[last'.map].first = maps[last'.map].first
           /\ maps'[last'.map].size = maps[last'.map].size
    /\ (last'.op \in {"mapPut", "mapRemove", "mapClear"}) =>
           \A m \in MapIds \ {last'.map} :
               maps[m].alive =>
                   /\ maps'[m].first = maps[m].first
                   /\ maps'[m].size = maps[m].size

C14_ClearUsable ==
    /\ \A m \in LiveMaps :
           LET r == mapClear(m)
           IN  /\ r.ret = MAP_SUCCESS
               /\ r.map.alive
               /\ r.map.size = 0
               /\ r.map.first = <<>>
    /\ (last.op = "mapClear" /\ last.map # NullMap) =>
           /\ last.ret = MAP_SUCCESS
           /\ mapGetSize(last.map) = 0
           /\ mapGetFirst(last.map).ret = NULL
           /\ \A k \in KeyElements :
                  /\ ~mapContains(last.map, k)
                  /\ mapGet(last.map, k) = NULL
           /\ \A k \in KeyElements, d \in DataElements :
                  LET p == mapPut(last.map, k, d, "none")
                  IN  /\ p.ret = MAP_SUCCESS
                      /\ p.map.size = 1
                      /\ p.map.first = <<[key |-> k, data |-> d]>>

\* A mapClear has emptied a map in the middle of an enumeration: the
\* iterator stood on a node.
C14_Witness ==
    /\ last.op = "mapClear" /\ last.map = "src" /\ last.ret = MAP_SUCCESS
    /\ enum["src"] = "staleClear"
    /\ maps["src"].iterator = Released
    /\ maps["src"].size = 0

\* C15: mapContains, mapGet and mapGetSize change nothing: the list with its
\* keys and data, size and the iterator are after the call what they were
\* before it, so that an enumeration in progress goes on from the same node
\* (mapGetNext has the same outcome before and after the call).
C15_ReadOnlyStep ==
    (last'.op \in {"mapContains", "mapGet", "mapGetSize"})
    => /\ maps' = maps
       /\ enum' = enum
       /\ pass' = pass
       /\ \A m \in LiveMaps : mapGetNext(m)' = mapGetNext(m)

C15_ReadOnly == [][C15_ReadOnlyStep]_vars

\* A mapGet that found its key in the middle of an enumeration of a full map,
\* which stands on the second node.
C15_Witness ==
    /\ last.op = "mapGet" /\ last.map = "src" /\ last.ret # NULL
    /\ enum["src"] = "active"
    /\ maps["src"].iterator = 2
    /\ Len(pass["src"]) = 2
    /\ maps["src"].size = MaxKey

\* C17: on a list whose keys are strictly increasing, findPrevNode sets
\* prev_node to the dummy node or a node of the list such that every node up
\* to and including prev_node has a key smaller than the element and the
\* node after prev_node, if there is one, has a key that is not smaller; it
\* returns true exactly when that node exists and its key compares equal to
\* the element.
C17_FindPrevNode ==
    \A m \in LiveMaps :
        StrictlyIncreasing(Keys(maps[m].first)) =>
            \A element \in KeyElements :
                LET list == maps[m].first
                    r == findPrevNode(maps[m], element)
                    p == r.prev_node
                IN  /\ p \in Dummy..Len(list)
                    /\ \A i \in 1..p : compare_keys(NodeAt(list, i).key, element) < 0
                    /\ HasNext(list, p) =>
                           compare_keys(NodeAt(list, p + 1).key, element) >= 0
                    /\ r.was_found <=>
                           (/\ HasNext(list, p)
                            /\ compare_keys(element, NodeAt(list, p + 1).key) = 0)

\* A mapContains has searched for a key that is not in the map and sorts
\* between two keys that are: the map holds every key but that one.
C17_Witness ==
    /\ last.op = "mapContains" /\ last.map = "src" /\ last.ret = FALSE
    /\ last.key \in 2..(MaxKey - 1)
    /\ maps["src"].size = MaxKey - 1
    /\ findPrevNode(maps["src"], last.key).prev_node = last.key - 1
    /\ HasNext(maps["src"].first, last.key - 1)

\* C18: in every reachable state the iterator of a map is NULL, the dummy
\* node or a node of the map's list; it is never the address of a node that
\* has been released.
C18_IteratorNeverDangles ==
    \A m \in LiveMaps :
        /\ maps[m].iterator # Released
        /\ maps[m].iterator \in {NullNode, Dummy} \cup (1..Len(maps[m].first))


\* The references among the events es.
RefsOf(es) == {e.ref : e \in es}

\* C13: a mapCopy in which an allocation or a copy fails returns NULL,
\* leaves the list and size of the map it copies as they are, and leaves
\* nothing allocated: every node it allocated and every key and data copy it
\* made has been released when it returns.
C13_FailedCopyReleasesAll ==
    /\ \A m \in LiveMaps :
           \A fault \in CopyFaults(maps[m].size) :
               fault.what # "none" =>
                   LET r == mapCopy(m, fault)
                   IN  /\ r.copy = NoMap
                       /\ r.src.first = maps[m].first
                       /\ r.src.size = maps[m].size
    /\ (last.op = "mapCopy" /\ last.map # NullMap /\ ~last.ret) =>
           /\ mem.leaked = {}
           /\ mem.made \subseteq RefsOf(mem.released)

\* The release e is made with the function that matches what it releases.
Matching(e) ==
    e.fn = IF e.ref.field = "key" THEN "free_key"
           ELSE IF e.ref.field = "data" THEN "free_data"
           ELSE "free"

\* C16: while no allocation and no copy has failed, every key copy and data
\* copy a map made is released once, with free_key and free_data, by the
\* time the map is destroyed: every call releases only live allocations
\* (nothing twice) and loses none, what is allocated is what the nodes of the
\* live maps hold (nothing of a destroyed map), a mapPut that replaces data
\* releases the old data and nothing else, a mapRemove the node it removes
\* with its key and data, a mapClear every node with its key and data.
C16_ReleasedExactlyOnce ==
    noFail =>
        /\ mem.bad = {}
        /\ mem.leaked = {}
        /\ heap = Held(maps)
        /\ \A m \in MapIds : ~maps[m].alive => \A r \in heap : r.owner # m
        /\ \A e \in mem.released : Matching(e)
        /\ (last.op = "mapPut" /\ last.ret = MAP_SUCCESS) =>
               \/ mem.released = {}
               \/ \E k \in MemKeys :
                      /\ mem.released = {Event("free_data", Ref(last.map, k, "data"))}
                      /\ mem.made = {Ref(last.map, k, "data")}
        /\ (last.op = "mapRemove" /\ last.ret = MAP_SUCCESS) =>
               \E k \in MemKeys :
                   /\ ~mapContains(last.map, k)
                   /\ mem.released = {Event("free_data", Ref(last.map, k, "data")),
                                      Event("free_key", Ref(last.map, k, "key")),
                                      Event("free", NodeRef(last.map, k))}
        /\ (last.op = "mapClear" /\ last.ret = MAP_SUCCESS) =>
               {r \in heap : r.owner = last.map} = {MapRef(last.map), DummyRef(last.map)}
        /\ (last.op = "mapDestroy") =>
               /\ Event("free", MapRef(last.map)) \in mem.released
               /\ Event("free", DummyRef(last.map)) \in mem.released

\* The copy of a full map has been destroyed: the call released the map
\* record, the dummy node and every node of the copy with its key and data,
\* and the map that was copied still holds its own.
C16_Witness ==
    /\ noFail
    /\ last.op = "mapDestroy" /\ last.map = "cpy"
    /\ Cardinality(mem.released) = 2 + 3 * MaxMemKey
    /\ maps["src"].alive /\ Len(maps["src"].first) = MaxMemKey
    /\ Cardinality(heap) = 2 + 3 * MaxMemKey

\* C19: free_key and free_data are called only with a reference that
\* copy_key or copy_data returned and that has not been released: never with
\* NULL, with a field nothing was assigned to, or with a released reference.
C19_ReleasesOnlyLive ==
    /\ \A e \in mem.bad : e.fn \notin {"free_key", "free_data"}
    /\ \A e \in mem.released : Matching(e)

====
